---- MODULE Spec2Model ----
(***************************************************************************)
(* Go Live session engine of src/src/index.js: the in-memory `sessions`    *)
(* table, the socket.io rooms `stream:<username>`, and the six socket      *)
(* handlers (host:start, host:update, host:end, listener:join, chat:send,  *)
(* disconnect).  Node runs one handler at a time, so every handler is one  *)
(* atomic action.                                                          *)
(*                                                                         *)
(* Conventions                                                             *)
(*  - `sessions` is the JS object: a function whose DOMAIN is the set of   *)
(*    keys present; `keyOrder` is the order Object.entries enumerates them *)
(*    (insertion order of string keys).                                    *)
(*  - an optional payload field is a set with at most one element: {} is   *)
(*    the JS value undefined, {v} is the supplied value v.                 *)
(*  - Date.now() is `now`, in milliseconds.  session.position is in        *)
(*    seconds as the host supplies it; the position sent in stream:state   *)
(*    is a fraction of seconds in the code and is carried here in          *)
(*    milliseconds (field positionMs).                                     *)
(*  - `emits` is the list of events the last handler sent, each with the   *)
(*    set of sockets it was delivered to; `act` names the last handler.    *)
(*  - socket.streamUsername is written by listener:join and read by no     *)
(*    handler; it is not part of the state.                                *)
(*  - `superseded`, `ended` and `baseline` are history variables: no       *)
(*    handler reads them.                                                  *)
(*  - src/unnamed/part_001 is an older revision of the same handlers       *)
(*    (lower-cased keys, no NOT_HOST answer, no guard on host:end); the    *)
(*    model is of src/src/index.js.                                        *)
(***************************************************************************)
EXTENDS Integers, Sequences, FiniteSets, TLC

\* ---------------------------------------------------------------- bounds
\* Number of clock ticks the clock specification lets pass.
MaxTicks == 2

\* Number of socket events the clock specification processes.
MaxClockEvents == 4

\* Number of socket events (handler invocations) the sessions-and-rooms
\* specification processes.
MaxEvents == 4

\* Socket events handled in a behaviour of the delivery specification.
MaxOrderEvents == 5

\* Number of HTTP requests (uploads and deletes) of one user in a behaviour
\* of the storage specification.
MaxRequests == 3

\* ---------------------------------------------------------------- inputs
\* The sockets that have connected.  A socket id is never reused, so a
\* socket that disconnects stays closed.
Sockets == {"s1", "s2", "s3"}

\* JS undefined and null, both falsy.
Undefined == "undefined"

Null == "null"

\* The empty string, a track a payload can carry.
Empty == ""

Usernames == {"alice", "bob"}

\* The usernames of the keys specification: two spellings of one name, and
\* a payload without a username (the key is then the string "undefined").
KeyUsernames == {"alice", "Alice", Undefined}

\* Every key a session or a room can have in the model.
AllKeys == Usernames \cup KeyUsernames

SongValues == {"X"}

ListenerNames == {Undefined, "Ann"}

PositionValues == {-5, 5}

\* An optional payload field: {} is undefined, {v} is the value v.
Option(S) == {{}} \cup {{v} : v \in S}

UpdatePayload(song, isPlaying, position) ==
  [song |-> song, isPlaying |-> isPlaying, position |-> position]

\* The payloads of the sessions-and-rooms specification: a pause and a seek.
RoomPayloads ==
  {UpdatePayload({}, {FALSE}, {}), UpdatePayload({}, {}, {5})}

\* The host:update payloads tried: each field alone (song change or clear,
\* pause, resume, seek forward, seek to a negative position) and the seek
\* while playing of the reference scenario.
UpdatePayloads ==
  {UpdatePayload({s}, {}, {}) : s \in SongValues \cup {Null, Empty}}
    \cup {UpdatePayload({}, {b}, {}) : b \in BOOLEAN}
    \cup {UpdatePayload({}, {}, {p}) : p \in PositionValues}
    \cup {UpdatePayload({}, {TRUE}, {5})}

\* One clock tick, in milliseconds.
TickMs == 5 * 1000

Truthy(v) == v \notin {Undefined, Null, Empty}

\* The value held by a one-element option set.
Only(opt) == CHOOSE v \in opt : TRUE

\* ----------------------------------------------------------------- state
VARIABLES
  sessions,    \* username -> session record, for the keys present
  keyOrder,    \* the keys of `sessions` in Object.entries order
  rooms,       \* username -> sockets in socket.io room stream:<username>
  status,      \* socket -> "open" | "closed"
  listenerName,\* socket -> socket.listenerName
  now,         \* Date.now()
  events,      \* number of socket events processed so far
  superseded,  \* history: <<username, socket>> whose session was taken over
  ended,       \* history: username -> how its last session's host left
  baseline,    \* history: username -> last position its host set, and when
  emits,       \* events sent by the last handler
  act,         \* the last handler: [kind, socket, username, payload]
  received,    \* history: socket -> the events it was sent, in order
  storage_used,  \* users.storage_used of the one user of the storage part
  storage_limit, \* users.storage_limit of that user
  songs,         \* the user's rows of table songs: id -> file_size
  requests       \* HTTP request -> how far its handler has got

\* The variables of the socket handlers.
socketVars == <<sessions, keyOrder, rooms, status, listenerName, now, events,
                superseded, ended, baseline, emits, act, received>>

\* The variables of the upload and library routes.
storageVars == <<storage_used, storage_limit, songs, requests>>

vars == <<sessions, keyOrder, rooms, status, listenerName, now, events,
          superseded, ended, baseline, emits, act, received,
          storage_used, storage_limit, songs, requests>>

\* The HTTP requests of a behaviour; an upload's number is also the id of
\* the row it inserts.
Requests == 1..MaxRequests

\* The sizes of the uploaded files and the storage limits of the user.
FileSizes == {1, 2}

StorageLimits == {2, 3}

\* A request that has not arrived yet.
NotArrived == [pc |-> "idle", size |-> 0, target |-> {}]

\* A new user: nothing stored, no rows (migrate.js: storage_used DEFAULT 0).
NewUser ==
  /\ storage_used = 0
  /\ songs = <<>>
  /\ requests = [r \in Requests |-> NotArrived]

\* The payload of an event that carries none of the host:update fields.
NoPayload == UpdatePayload({}, {}, {})

\* The last handler run, with the host:update fields of its payload.
ActWith(kind, socket, username, payload) ==
  [kind |-> kind, socket |-> socket, username |-> username,
   payload |-> payload]

Act(kind, socket, username) == ActWith(kind, socket, username, NoPayload)

\* One event sent by a handler: `room` is the username whose room it was
\* sent to (Undefined for socket.emit), `to` the sockets it is delivered to.
Emit(ev, room, to, data) ==
  [ev |-> ev, room |-> room, to |-> to, data |-> data]

\* No session yet; the sockets of `Sockets` have connected.  The connection
\* handler only registers the socket's handlers and changes no state.
SocketsInit ==
  /\ sessions = <<>>
  /\ keyOrder = <<>>
  /\ rooms = [u \in AllKeys |-> {}]
  /\ status = [s \in Sockets |-> "open"]
  /\ listenerName = [s \in Sockets |-> Undefined]
  /\ now = 0
  /\ events = 0
  /\ superseded = {}
  /\ baseline = [u \in AllKeys |-> [position |-> 0, at |-> 0]]
  /\ ended = [u \in AllKeys |-> "no"]
  /\ emits = <<>>
  /\ received = [s \in Sockets |-> <<>>]
  /\ act = Act("init", Undefined, Undefined)

\* The state after construction: no session, and a user with nothing stored
\* under the largest of the limits.
Init ==
  /\ SocketsInit
  /\ NewUser
  /\ storage_limit = CHOOSE limit \in StorageLimits :
                        \A other \in StorageLimits : limit >= other

\* ------------------------------------------------------- JS object helpers
\* sessions[username] = session
Put(sess, username, session) ==
  [u \in DOMAIN sess \cup {username} |->
     IF u = username THEN session ELSE sess[u]]

\* delete sessions[username]
Delete(sess, username) ==
  [u \in DOMAIN sess \ {username} |-> sess[u]]

\* Key order after `sessions[username] = ...`: a new key goes last, an
\* existing key keeps its place.
OrderAfterPut(keys, sess, username) ==
  IF username \in DOMAIN sess THEN keys ELSE Append(keys, username)

\* Key order after `delete sessions[username]`.
OrderAfterDelete(keys, username) ==
  SelectSeq(keys, LAMBDA k : k # username)

\* ------------------------------------------------------ socket.io delivery
\* socket.emit(...): the sending socket only.
ToSocket(socket) == {socket}

\* io.to(room).emit(...): every socket in the room.
ToRoom(rm, username) == rm[username]

\* socket.to(room).emit(...): every socket in the room but the sender.
ToRoomExceptSender(rm, username, socket) == rm[username] \ {socket}

\* socket.join(room)
JoinRoom(rm, username, socket) ==
  [rm EXCEPT ![username] = @ \cup {socket}]

\* socket.io takes a closing socket out of all its rooms before it fires
\* the 'disconnect' event.
LeaveAllRooms(rm, socket) ==
  [u \in DOMAIN rm |-> rm[u] \ {socket}]

\* ------------------------------------------------------------- host:start
\* The session object host:start installs.
NewSession(socket, song) ==
  [hostSocketId |-> socket,
   song         |-> song,
   isPlaying    |-> TRUE,
   position     |-> 0,
   startedAt    |-> now,
   listeners    |-> {}]

HostStarted(socket) ==
  Emit("host:started", Undefined, ToSocket(socket),
       [success |-> TRUE, listenerCount |-> 0])

\* History only: the host a start by `socket` displaces, and `socket` is a
\* host again.
SupersededAfterStart(socket, username) ==
  (superseded \ {<<username, socket>>})
    \cup (IF /\ username \in DOMAIN sessions
             /\ sessions[username].hostSocketId # socket
          THEN {<<username, sessions[username].hostSocketId>>}
          ELSE {})

\* Mutant of HostStart: "create or update" that keeps the recorded host of a
\* session that already exists.
HostStartKeepsHost(socket, username, song) ==
  /\ status[socket] = "open"
  /\ sessions' =
       Put(sessions, username,
           IF username \in DOMAIN sessions
           THEN [NewSession(socket, song) EXCEPT
                   !.hostSocketId = sessions[username].hostSocketId]
           ELSE NewSession(socket, song))
  /\ keyOrder' = OrderAfterPut(keyOrder, sessions, username)
  /\ rooms' = JoinRoom(rooms, username, socket)
  /\ emits' = <<HostStarted(socket)>>
  /\ superseded' = SupersededAfterStart(socket, username)
  /\ baseline' = [baseline EXCEPT ![username] = [position |-> 0, at |-> now]]
  /\ ended' = [ended EXCEPT ![username] = "no"]
  /\ events' = events + 1
  /\ act' = ActWith("host:start", socket, username,
                   UpdatePayload({song} \ {Undefined}, {}, {}))
  /\ UNCHANGED <<status, listenerName, now>>

\* Mutant of HostStart: "create or update" that keeps the listeners of a
\* session that already exists.
HostStartKeepsListeners(socket, username, song) ==
  /\ status[socket] = "open"
  /\ sessions' =
       Put(sessions, username,
           IF username \in DOMAIN sessions
           THEN [NewSession(socket, song) EXCEPT
                   !.listeners = sessions[username].listeners]
           ELSE NewSession(socket, song))
  /\ keyOrder' = OrderAfterPut(keyOrder, sessions, username)
  /\ rooms' = JoinRoom(rooms, username, socket)
  /\ emits' = <<HostStarted(socket)>>
  /\ superseded' = SupersededAfterStart(socket, username)
  /\ baseline' = [baseline EXCEPT ![username] = [position |-> 0, at |-> now]]
  /\ ended' = [ended EXCEPT ![username] = "no"]
  /\ events' = events + 1
  /\ act' = ActWith("host:start", socket, username,
                   UpdatePayload({song} \ {Undefined}, {}, {}))
  /\ UNCHANGED <<status, listenerName, now>>

HostStart(socket, username, song) ==
  /\ status[socket] = "open"
  /\ sessions' = Put(sessions, username, NewSession(socket, song))
  /\ keyOrder' = OrderAfterPut(keyOrder, sessions, username)
  /\ rooms' = JoinRoom(rooms, username, socket)
  /\ emits' = <<HostStarted(socket)>>
  /\ superseded' = SupersededAfterStart(socket, username)
  /\ baseline' = [baseline EXCEPT ![username] = [position |-> 0, at |-> now]]
  /\ ended' = [ended EXCEPT ![username] = "no"]
  /\ events' = events + 1
  /\ act' = ActWith("host:start", socket, username,
                   UpdatePayload({song} \ {Undefined}, {}, {}))
  /\ UNCHANGED <<status, listenerName, now>>

\* ------------------------------------------------------------ host:update
\* Mutant of UpdateAuthorized: the sender is not compared with the host.
UpdateAuthorizedAnySocket(socket, username) ==
  username \in DOMAIN sessions

\* The guard of host:update, negated: the session exists and the sender is
\* its recorded host.
UpdateAuthorized(socket, username) ==
  /\ username \in DOMAIN sessions
  /\ sessions[username].hostSocketId = socket

NotHostError(socket) ==
  Emit("stream:error", Undefined, ToSocket(socket),
       [error |-> "Not authorized", code |-> "NOT_HOST"])

\* Mutant of ApplyUpdate: a supplied position is added to the stored one.
ApplyUpdateAddsPosition(session, song, isPlaying, position) ==
  [session EXCEPT
     !.song      = IF song # {} THEN Only(song) ELSE @,
     !.isPlaying = IF isPlaying # {} THEN Only(isPlaying) ELSE @,
     !.position  = IF position # {} THEN @ + Only(position) ELSE @,
     !.startedAt = IF position # {} THEN now ELSE @]

\* Mutant of ApplyUpdate: `if (song)` in place of `if (song !== undefined)`,
\* so that a null or empty track is not stored.
ApplyUpdateTruthySong(session, song, isPlaying, position) ==
  [session EXCEPT
     !.song      = IF song # {} /\ Truthy(Only(song)) THEN Only(song) ELSE @,
     !.isPlaying = IF isPlaying # {} THEN Only(isPlaying) ELSE @,
     !.position  = IF position # {} THEN Only(position) ELSE @,
     !.startedAt = IF position # {} THEN now ELSE @]

\* The three conditional assignments of host:update.
ApplyUpdate(session, song, isPlaying, position) ==
  [session EXCEPT
     !.song      = IF song # {} THEN Only(song) ELSE @,
     !.isPlaying = IF isPlaying # {} THEN Only(isPlaying) ELSE @,
     !.position  = IF position # {} THEN Only(position) ELSE @,
     !.startedAt = IF position # {} THEN now ELSE @]

\* Mutant of StreamUpdate: io.to(room), which reaches the sending host too.
StreamUpdateToWholeRoom(socket, username, session) ==
  Emit("stream:update", username,
       ToRoom(rooms, username),
       [song      |-> session.song,
        isPlaying |-> session.isPlaying,
        position  |-> session.position])

StreamUpdate(socket, username, session) ==
  Emit("stream:update", username,
       ToRoomExceptSender(rooms, username, socket),
       [song      |-> session.song,
        isPlaying |-> session.isPlaying,
        position  |-> session.position])

\* History only: the position an accepted host:update supplies, and when.
BaselineAfterUpdate(username, position) ==
  IF position = {}
  THEN baseline
  ELSE [baseline EXCEPT
          ![username] = [position |-> Only(position), at |-> now]]

HostUpdate(socket, username, song, isPlaying, position) ==
  /\ status[socket] = "open"
  /\ IF ~UpdateAuthorized(socket, username)
     THEN /\ emits' = <<NotHostError(socket)>>
          /\ sessions' = sessions
          /\ baseline' = baseline
     ELSE LET updated ==
                ApplyUpdate(sessions[username], song, isPlaying, position)
          IN /\ sessions' = [sessions EXCEPT ![username] = updated]
             /\ emits' = <<StreamUpdate(socket, username, updated)>>
             /\ baseline' = BaselineAfterUpdate(username, position)
  /\ events' = events + 1
  /\ act' = ActWith("host:update", socket, username,
                   UpdatePayload(song, isPlaying, position))
  /\ UNCHANGED <<keyOrder, rooms, status, listenerName, now, superseded,
                 ended>>

\* --------------------------------------------------------------- host:end
\* Mutant of EndAuthorized: the sender is not compared with the host.
EndAuthorizedAnySocket(socket, username) ==
  username \in DOMAIN sessions

\* The guard of host:end, negated.
EndAuthorized(socket, username) ==
  /\ username \in DOMAIN sessions
  /\ sessions[username].hostSocketId = socket

StreamEnded(rm, username, message) ==
  Emit("stream:ended", username, ToRoom(rm, username),
       [message |-> message])

\* Mutant of SessionsAfterEnd: the session is announced as ended but kept.
SessionsAfterEndKept(username) == sessions

\* The session table host:end leaves behind.
SessionsAfterEnd(username) == Delete(sessions, username)

HostEnd(socket, username) ==
  /\ status[socket] = "open"
  /\ IF ~EndAuthorized(socket, username)
     THEN /\ emits' = <<>>
          /\ UNCHANGED <<sessions, keyOrder, ended>>
     ELSE /\ emits' =
               <<StreamEnded(rooms, username, "The host ended the stream")>>
          /\ sessions' = SessionsAfterEnd(username)
          /\ keyOrder' = OrderAfterDelete(keyOrder, username)
          /\ ended' = [ended EXCEPT ![username] = "host:end"]
  /\ events' = events + 1
  /\ act' = Act("host:end", socket, username)
  /\ UNCHANGED <<rooms, status, listenerName, now, superseded, baseline>>

\* ---------------------------------------------------------- listener:join
NotFoundError(socket) ==
  Emit("stream:error", Undefined, ToSocket(socket),
       [error |-> "Stream not found or offline", code |-> "NOT_FOUND"])

\* Mutant of CurrentPosition: elapsed time is added while paused too.
CurrentPositionWhilePaused(session) ==
  IF Truthy(session.song)
  THEN session.position * 1000 + (now - session.startedAt)
  ELSE session.position * 1000

\* "Calculate current position based on elapsed time", in milliseconds:
\* session.position + (Date.now() - session.startedAt) / 1000 seconds.
CurrentPosition(session) ==
  IF session.isPlaying /\ Truthy(session.song)
  THEN session.position * 1000 + (now - session.startedAt)
  ELSE session.position * 1000

StreamState(socket, session) ==
  Emit("stream:state", Undefined, ToSocket(socket),
       [song          |-> session.song,
        isPlaying     |-> session.isPlaying,
        positionMs    |-> CurrentPosition(session),
        listenerCount |-> Cardinality(session.listeners)])

\* Mutant of StreamListeners: the host is counted with the listeners.
StreamListenersCountsHost(rm, username, session) ==
  Emit("stream:listeners", username, ToRoom(rm, username),
       [count |-> Cardinality(session.listeners) + 1])

StreamListeners(rm, username, session) ==
  Emit("stream:listeners", username, ToRoom(rm, username),
       [count |-> Cardinality(session.listeners)])

\* Mutant of JoinNotice: socket.emit, which reaches the joiner only.
JoinNoticeToJoiner(rm, username, socket, name) ==
  Emit("chat:message", username, ToSocket(socket),
       [type |-> "system", text |-> <<name, "joined the stream">>,
        timestamp |-> now])

\* The notice of a join, sent with socket.to(room).
JoinNotice(rm, username, socket, name) ==
  Emit("chat:message", username, ToRoomExceptSender(rm, username, socket),
       [type |-> "system", text |-> <<name, "joined the stream">>,
        timestamp |-> now])

\* Mutant of JoinNotFound: the socket joins the room before the lookup.
JoinNotFoundJoinsRoom(socket, username) ==
  /\ emits' = <<NotFoundError(socket)>>
  /\ rooms' = JoinRoom(rooms, username, socket)
  /\ UNCHANGED <<sessions, listenerName>>

\* The early return of listener:join: no session under that key.
JoinNotFound(socket, username) ==
  /\ emits' = <<NotFoundError(socket)>>
  /\ UNCHANGED <<sessions, rooms, listenerName>>

\* Mutant of JoinFound: the join also broadcasts the session's state to the
\* room as a stream:update, which hands the joiner an update made before it
\* joined.
JoinFoundResendsUpdate(socket, username, name) ==
  LET joined == [sessions[username] EXCEPT !.listeners = @ \cup {socket}]
      rm     == JoinRoom(rooms, username, socket)
  IN /\ sessions' = [sessions EXCEPT ![username] = joined]
     /\ rooms' = rm
     /\ listenerName' = [listenerName EXCEPT ![socket] = name]
     /\ emits' = <<StreamState(socket, joined),
                   StreamListeners(rm, username, joined),
                   JoinNotice(rm, username, socket, name),
                   Emit("stream:update", username, ToRoom(rm, username),
                        [song      |-> joined.song,
                         isPlaying |-> joined.isPlaying,
                         position  |-> joined.position])>>

\* Mutant of JoinFound: the count is a counter of joins, one more than it
\* was, whether the socket was already among the listeners or not.
JoinFoundCountsJoins(socket, username, name) ==
  LET joined == [sessions[username] EXCEPT !.listeners = @ \cup {socket}]
      rm     == JoinRoom(rooms, username, socket)
      count  == Cardinality(sessions[username].listeners) + 1
  IN /\ sessions' = [sessions EXCEPT ![username] = joined]
     /\ rooms' = rm
     /\ listenerName' = [listenerName EXCEPT ![socket] = name]
     /\ emits' = <<[StreamState(socket, joined) EXCEPT
                      !.data.listenerCount = count],
                   [StreamListeners(rm, username, joined) EXCEPT
                      !.data.count = count],
                   JoinNotice(rm, username, socket, name)>>

\* Mutant of JoinFound: the join restarts the session's timer.
JoinFoundRestartsClock(socket, username, name) ==
  LET joined == [sessions[username] EXCEPT !.listeners = @ \cup {socket},
                                           !.startedAt = now]
      rm     == JoinRoom(rooms, username, socket)
  IN /\ sessions' = [sessions EXCEPT ![username] = joined]
     /\ rooms' = rm
     /\ listenerName' = [listenerName EXCEPT ![socket] = name]
     /\ emits' = <<StreamState(socket, joined),
                   StreamListeners(rm, username, joined),
                   JoinNotice(rm, username, socket, name)>>

\* The rest of listener:join, once the session is found.
JoinFound(socket, username, name) ==
  LET joined == [sessions[username] EXCEPT !.listeners = @ \cup {socket}]
      rm     == JoinRoom(rooms, username, socket)
  IN /\ sessions' = [sessions EXCEPT ![username] = joined]
     /\ rooms' = rm
     /\ listenerName' = [listenerName EXCEPT ![socket] = name]
     /\ emits' = <<StreamState(socket, joined),
                   StreamListeners(rm, username, joined),
                   JoinNotice(rm, username, socket, name)>>

ListenerJoin(socket, username, name) ==
  /\ status[socket] = "open"
  /\ IF username \notin DOMAIN sessions
     THEN JoinNotFound(socket, username)
     ELSE JoinFound(socket, username, name)
  /\ events' = events + 1
  /\ act' = Act("listener:join", socket, username)
  /\ UNCHANGED <<keyOrder, status, now, superseded, ended, baseline>>

\* -------------------------------------------------------------- chat:send
ChatMessage(socket, username, message, senderName) ==
  Emit("chat:message", username, ToRoom(rooms, username),
       [type |-> "chat", username |-> senderName, text |-> message,
        timestamp |-> now, senderId |-> socket])

\* Mutant of ChatSend: no look-up of the session before the broadcast.
ChatSendWithoutSession(socket, username, message, senderName) ==
  /\ status[socket] = "open"
  /\ emits' = <<ChatMessage(socket, username, message, senderName)>>
  /\ events' = events + 1
  /\ act' = ActWith("chat:send", socket, username,
                   [message |-> message, senderName |-> senderName])
  /\ UNCHANGED <<sessions, keyOrder, rooms, status, listenerName, now,
                 superseded, ended, baseline>>

ChatSend(socket, username, message, senderName) ==
  /\ status[socket] = "open"
  /\ emits' = IF username \notin DOMAIN sessions
              THEN <<>>
              ELSE <<ChatMessage(socket, username, message, senderName)>>
  /\ events' = events + 1
  /\ act' = ActWith("chat:send", socket, username,
                   [message |-> message, senderName |-> senderName])
  /\ UNCHANGED <<sessions, keyOrder, rooms, status, listenerName, now,
                 superseded, ended, baseline>>

\* ------------------------------------------------------------- disconnect
LeftNotice(rm, username, socket) ==
  Emit("chat:message", username, ToRoomExceptSender(rm, username, socket),
       [type |-> "system",
        text |-> <<listenerName[socket], "left the stream">>,
        timestamp |-> now])

\* Mutant of DisconnectsHost: a socket that was ever the host of the
\* username still counts as its host.
DisconnectsFormerHost(username, session, socket) ==
  \/ session.hostSocketId = socket
  \/ <<username, socket>> \in superseded

\* The test of the host branch of the disconnect handler.
DisconnectsHost(username, session, socket) ==
  session.hostSocketId = socket

\* The for-loop of the disconnect handler over Object.entries(sessions):
\* `keys` are the entries still to visit, `sess` the table and `out` the
\* events sent so far.  The host branch returns from the handler.
RECURSIVE DisconnectLoop(_, _, _, _, _)
DisconnectLoop(socket, keys, sess, rm, out) ==
  IF keys = <<>>
  THEN [sessions |-> sess, emits |-> out]
  ELSE
    LET username == Head(keys)
        session  == sess[username]
    IN IF DisconnectsHost(username, session, socket)
       THEN [sessions |-> Delete(sess, username),
             emits    |-> Append(out,
                            StreamEnded(rm, username, "The host disconnected"))]
       ELSE IF socket \in session.listeners
       THEN LET left == [session EXCEPT !.listeners = @ \ {socket}]
                out1 == Append(out, StreamListeners(rm, username, left))
                out2 == IF Truthy(listenerName[socket])
                        THEN Append(out1, LeftNotice(rm, username, socket))
                        ELSE out1
            IN DisconnectLoop(socket, Tail(keys),
                              [sess EXCEPT ![username] = left], rm, out2)
       ELSE DisconnectLoop(socket, Tail(keys), sess, rm, out)

\* History only: the sessions whose recorded host is the closing socket.
EndedAfterDisconnect(socket) ==
  [u \in DOMAIN ended |->
     IF u \in DOMAIN sessions /\ sessions[u].hostSocketId = socket
     THEN "disconnect"
     ELSE ended[u]]

Disconnect(socket) ==
  /\ status[socket] = "open"
  /\ LET rm   == LeaveAllRooms(rooms, socket)
         done == DisconnectLoop(socket, keyOrder, sessions, rm, <<>>)
     IN /\ rooms' = rm
        /\ sessions' = done.sessions
        /\ keyOrder' =
             SelectSeq(keyOrder, LAMBDA k : k \in DOMAIN done.sessions)
        /\ emits' = done.emits
  /\ status' = [status EXCEPT ![socket] = "closed"]
  /\ events' = events + 1
  /\ ended' = EndedAfterDisconnect(socket)
  /\ act' = Act("disconnect", socket, Undefined)
  /\ UNCHANGED <<listenerName, now, superseded, baseline>>

\* ------------------------------------------------------------------ time
\* Wall-clock time passes between two handlers.
Tick ==
  /\ now' = now + TickMs
  /\ emits' = <<>>
  /\ act' = Act("tick", Undefined, Undefined)
  /\ UNCHANGED <<sessions, keyOrder, rooms, status, listenerName, events,
                 superseded, ended, baseline>>

\* ---------------------------------------------- upload and library routes
\* Each route handler is a chain of awaited queries; between two of them
\* the handlers of other requests run.  Each query is one statement, which
\* the database runs atomically.

\* No HTTP request is handled in the step.
NoRequest == UNCHANGED storageVars

RECURSIVE TotalSize(_, _)
\* SELECT COALESCE(SUM(file_size), 0) FROM songs WHERE id = ANY(ids)
TotalSize(rows, ids) ==
  IF ids \cap DOMAIN rows = {}
  THEN 0
  ELSE LET id == CHOOSE i \in ids \cap DOMAIN rows : TRUE
       IN rows[id] + TotalSize(rows, ids \ {id})

\* GREATEST(a, b)
Greatest(a, b) == IF a >= b THEN a ELSE b

At(r, pc, size, target) ==
  [requests EXCEPT ![r] = [pc |-> pc, size |-> size, target |-> target]]

\* POST /api/upload: the SELECT of storage_used and storage_limit and the
\* limit check on the values it returned.
UploadCheck(r, size) ==
  /\ requests[r].pc = "idle"
  /\ requests' = IF storage_used + size > storage_limit
                 THEN At(r, "rejected", size, {})
                 ELSE At(r, "checked", size, {r})
  /\ UNCHANGED <<storage_used, storage_limit, songs>>

\* The metadata parsing or the upload to the bucket throws: the catch
\* answers 500 and nothing is inserted.
UploadFail(r) ==
  /\ requests[r].pc = "checked"
  /\ requests' = At(r, "failed", requests[r].size, {})
  /\ UNCHANGED <<storage_used, storage_limit, songs>>

\* INSERT INTO songs ... file_size
UploadInsert(r) ==
  /\ requests[r].pc = "checked"
  /\ songs' = Put(songs, r, requests[r].size)
  /\ requests' = At(r, "inserted", requests[r].size, {r})
  /\ UNCHANGED <<storage_used, storage_limit>>

\* UPDATE users SET storage_used = storage_used + $1
UploadUpdateStorage(r) ==
  /\ requests[r].pc = "inserted"
  /\ storage_used' = storage_used + requests[r].size
  /\ requests' = At(r, "done", requests[r].size, {r})
  /\ UNCHANGED <<storage_limit, songs>>

\* DELETE /api/library/:id: the SELECT of the song's file_size; 404 when
\* there is no such row.
DeleteSelect(r, id) ==
  /\ requests[r].pc = "idle"
  /\ requests' = IF id \notin DOMAIN songs
                 THEN At(r, "notFound", 0, {id})
                 ELSE At(r, "selected", songs[id], {id})
  /\ UNCHANGED <<storage_used, storage_limit, songs>>

\* DELETE FROM songs WHERE id = $1
DeleteSong(r) ==
  /\ requests[r].pc = "selected"
  /\ songs' = [id \in DOMAIN songs \ requests[r].target |-> songs[id]]
  /\ requests' = At(r, "deleted", requests[r].size, requests[r].target)
  /\ UNCHANGED <<storage_used, storage_limit>>

\* UPDATE users SET storage_used = storage_used - $1
DeleteUpdateStorage(r) ==
  /\ requests[r].pc = "deleted"
  /\ storage_used' = storage_used - requests[r].size
  /\ requests' = At(r, "done", requests[r].size, requests[r].target)
  /\ UNCHANGED <<storage_limit, songs>>

\* DELETE /api/library/bulk: the SELECT of the total size of the songs named.
BulkSelect(r, songIds) ==
  /\ requests[r].pc = "idle"
  /\ songIds # {}
  /\ requests' = At(r, "bulkSelected", TotalSize(songs, songIds), songIds)
  /\ UNCHANGED <<storage_used, storage_limit, songs>>

\* DELETE FROM songs WHERE id = ANY($1)
BulkDelete(r) ==
  /\ requests[r].pc = "bulkSelected"
  /\ songs' = [id \in DOMAIN songs \ requests[r].target |-> songs[id]]
  /\ requests' = At(r, "bulkDeleted", requests[r].size, requests[r].target)
  /\ UNCHANGED <<storage_used, storage_limit>>

\* if (totalSize > 0) UPDATE users SET storage_used =
\* GREATEST(storage_used - $1, 0)
BulkUpdateStorage(r) ==
  /\ requests[r].pc = "bulkDeleted"
  /\ storage_used' = IF requests[r].size > 0
                     THEN Greatest(storage_used - requests[r].size, 0)
                     ELSE storage_used
  /\ requests' = At(r, "done", requests[r].size, requests[r].target)
  /\ UNCHANGED <<storage_limit, songs>>

\* -------------------------------------------------------------- delivery
\* The events of `out` sent to `socket`, in the order the handler emitted
\* them, each with the number `n` of the handler run that sent it and the
\* username `about` of that handler's payload.
SentTo(socket, out, n, about) ==
  LET mine == SelectSeq(out, LAMBDA e : socket \in e.to)
  IN [i \in 1..Len(mine) |->
        [ev |-> mine[i].ev, room |-> mine[i].room, data |-> mine[i].data,
         n |-> n, about |-> about]]

\* Mutant of Deliver: a transport that hands a socket the newest event
\* first.
DeliverNewestFirst(log, out, n, about) ==
  [s \in DOMAIN log |-> SentTo(s, out, n, about) \o log[s]]

\* socket.io hands each socket the events sent to it in the order they were
\* emitted: handlers run one at a time and a connection is an ordered
\* stream.
Deliver(log, out, n, about) ==
  [s \in DOMAIN log |-> log[s] \o SentTo(s, out, n, about)]

\* What the sockets receive is recorded.
Tracked == received' = Deliver(received, emits', events', act'.username)

\* What the sockets receive is not recorded.
Untracked == UNCHANGED received

\* ---------------------------------------------------------- specification
\* Sessions, rooms and authority: every handler, from every socket, for
\* every username, with the clock standing still.
Next ==
  \/ \E socket \in Sockets, username \in Usernames :
       events < MaxEvents /\ HostStart(socket, username, "X") /\ Untracked /\ NoRequest
  \/ \E socket \in Sockets, username \in Usernames, p \in RoomPayloads :
       /\ events < MaxEvents
       /\ HostUpdate(socket, username, p.song, p.isPlaying, p.position)
       /\ Untracked /\ NoRequest
  \/ \E socket \in Sockets, username \in Usernames :
       events < MaxEvents /\ HostEnd(socket, username) /\ Untracked /\ NoRequest
  \/ \E socket \in Sockets, username \in Usernames, name \in ListenerNames :
       events < MaxEvents /\ ListenerJoin(socket, username, name) /\ Untracked /\ NoRequest
  \/ \E socket \in Sockets, username \in Usernames :
       events < MaxEvents /\ ChatSend(socket, username, "hi", "Ann") /\ Untracked /\ NoRequest
  \/ \E socket \in Sockets :
       events < MaxEvents /\ Disconnect(socket) /\ Untracked /\ NoRequest

Spec == Init /\ [][Next]_vars

\* The position clock: one host and one listener socket on one username,
\* every payload, with or without a song, and time passing between events.
ClockSockets == {"s1", "s2"}

ClockNext ==
  \/ \E socket \in ClockSockets, song \in SongValues \cup {Undefined} :
       events < MaxClockEvents /\ HostStart(socket, "alice", song) /\ Untracked /\ NoRequest
  \/ \E socket \in ClockSockets, p \in UpdatePayloads :
       /\ events < MaxClockEvents
       /\ HostUpdate(socket, "alice", p.song, p.isPlaying, p.position)
       /\ Untracked /\ NoRequest
  \/ \E socket \in ClockSockets :
       events < MaxClockEvents /\ HostEnd(socket, "alice") /\ Untracked /\ NoRequest
  \/ \E socket \in ClockSockets :
       events < MaxClockEvents /\ ListenerJoin(socket, "alice", "Ann") /\ Untracked /\ NoRequest
  \/ \E socket \in ClockSockets :
       events < MaxClockEvents /\ ChatSend(socket, "alice", "hi", "Ann") /\ Untracked /\ NoRequest
  \/ \E socket \in ClockSockets :
       events < MaxClockEvents /\ Disconnect(socket) /\ Untracked /\ NoRequest
  \/ now < MaxTicks * TickMs /\ Tick /\ Untracked /\ NoRequest

ClockSpec == Init /\ [][ClockNext]_vars

\* Session keys: the handlers use the payload's username as the key, as it
\* is given; two sockets, two spellings of one name and a missing username.
KeyNext ==
  \/ \E socket \in ClockSockets, username \in KeyUsernames :
       events < MaxEvents /\ HostStart(socket, username, "X") /\ Untracked /\ NoRequest
  \/ \E socket \in ClockSockets, username \in KeyUsernames,
        p \in RoomPayloads :
       /\ events < MaxEvents
       /\ HostUpdate(socket, username, p.song, p.isPlaying, p.position)
       /\ Untracked /\ NoRequest
  \/ \E socket \in ClockSockets, username \in KeyUsernames :
       events < MaxEvents /\ HostEnd(socket, username) /\ Untracked /\ NoRequest
  \/ \E socket \in ClockSockets, username \in KeyUsernames :
       events < MaxEvents /\ ListenerJoin(socket, username, "Ann") /\ Untracked /\ NoRequest
  \/ \E socket \in ClockSockets, username \in KeyUsernames :
       events < MaxEvents /\ ChatSend(socket, username, "hi", "Ann") /\ Untracked /\ NoRequest
  \/ \E socket \in ClockSockets :
       events < MaxEvents /\ Disconnect(socket) /\ Untracked /\ NoRequest

KeySpec == Init /\ [][KeyNext]_vars

\* Delivery: a host socket and a listener socket on one username, with the
\* events each socket receives recorded in order.
OrderNext ==
  \/ \E socket \in ClockSockets :
       events < MaxOrderEvents /\ HostStart(socket, "alice", "X") /\ Tracked /\ NoRequest
  \/ \E socket \in ClockSockets, p \in RoomPayloads :
       /\ events < MaxOrderEvents
       /\ HostUpdate(socket, "alice", p.song, p.isPlaying, p.position)
       /\ Tracked /\ NoRequest
  \/ \E socket \in ClockSockets :
       events < MaxOrderEvents /\ HostEnd(socket, "alice") /\ Tracked /\ NoRequest
  \/ \E socket \in ClockSockets :
       events < MaxOrderEvents /\ ListenerJoin(socket, "alice", "Ann") /\ Tracked /\ NoRequest
  \/ \E socket \in ClockSockets :
       events < MaxOrderEvents /\ ChatSend(socket, "alice", "hi", "Ann") /\ Tracked /\ NoRequest
  \/ \E socket \in ClockSockets :
       events < MaxOrderEvents /\ Disconnect(socket) /\ Tracked /\ NoRequest

OrderSpec == Init /\ [][OrderNext]_vars

\* Storage accounting: the uploads and deletes of one user, their queries
\* interleaved in every order; no socket event.
StorageInit ==
  /\ SocketsInit
  /\ NewUser
  /\ storage_limit \in StorageLimits

StorageNext ==
  \/ \E r \in Requests, size \in FileSizes :
       UploadCheck(r, size) /\ UNCHANGED socketVars
  \/ \E r \in Requests : UploadFail(r) /\ UNCHANGED socketVars
  \/ \E r \in Requests : UploadInsert(r) /\ UNCHANGED socketVars
  \/ \E r \in Requests : UploadUpdateStorage(r) /\ UNCHANGED socketVars
  \/ \E r \in Requests, id \in Requests :
       DeleteSelect(r, id) /\ UNCHANGED socketVars
  \/ \E r \in Requests : DeleteSong(r) /\ UNCHANGED socketVars
  \/ \E r \in Requests : DeleteUpdateStorage(r) /\ UNCHANGED socketVars
  \/ \E r \in Requests, songIds \in SUBSET Requests :
       BulkSelect(r, songIds) /\ UNCHANGED socketVars
  \/ \E r \in Requests : BulkDelete(r) /\ UNCHANGED socketVars
  \/ \E r \in Requests : BulkUpdateStorage(r) /\ UNCHANGED socketVars

StorageSpec == StorageInit /\ [][StorageNext]_vars

\* ================================================================ claims
\* The sender of the last event is neither absent from the table's key nor
\* its recorded host.
NotHostOf(sess, a) ==
  /\ a.username \in DOMAIN sess
  /\ sess[a.username].hostSocketId # a.socket

\* The handler sent exactly one event, `ev` with code `code`, to its own
\* socket and to nobody else.
OnlyErrorToSender(out, a, code) ==
  /\ Len(out) = 1
  /\ out[1].ev = "stream:error"
  /\ out[1].data.code = code
  /\ out[1].to = {a.socket}

\* C1: a host:update from a socket that is not the recorded host of the
\* session is answered with one stream:error NOT_HOST sent to that socket
\* only, sends no stream:update, and leaves every session field (track,
\* isPlaying, position, timestamp) as it was.
C1_NonHostUpdateRejected ==
  [][(act'.kind = "host:update" /\ NotHostOf(sessions, act'))
       => /\ OnlyErrorToSender(emits', act', "NOT_HOST")
          /\ sessions' = sessions]_vars

\* A rejected update against a playing session that has a listener.
C1_Witness ==
  /\ act.kind = "host:update"
  /\ NotHostOf(sessions, act)
  /\ OnlyErrorToSender(emits, act, "NOT_HOST")
  /\ sessions[act.username].listeners # {}
  /\ sessions[act.username].isPlaying

\* C2: when B starts a session for a username hosted by A, B is the recorded
\* host; from then on (until A starts it again) a host:update or host:end
\* from A changes no session, removes none and reaches no other socket.
C2_TakeOverRevokesOldHost ==
  [][/\ (act'.kind = "host:start" /\ NotHostOf(sessions, act'))
          => sessions'[act'.username].hostSocketId = act'.socket
     /\ (/\ act'.kind \in {"host:update", "host:end"}
         /\ <<act'.username, act'.socket>> \in superseded)
          => /\ sessions' = sessions
             /\ \A i \in 1..Len(emits') : emits'[i].to \subseteq {act'.socket}
    ]_vars

\* The displaced host A sends an update or an end while B's session is live
\* and its room has a listener.
C2_Witness ==
  /\ act.kind \in {"host:update", "host:end"}
  /\ <<act.username, act.socket>> \in superseded
  /\ act.username \in DOMAIN sessions
  /\ sessions[act.username].hostSocketId # act.socket
  /\ sessions[act.username].listeners # {}

\* C3: when the socket recorded as host of a session disconnects, that
\* session is removed and stream:ended goes to every socket left in its
\* room; a listener:join for the username after that, before a new
\* host:start, gets NOT_FOUND.
C3_HostDisconnectEndsSession ==
  [][/\ act'.kind = "disconnect"
          => \A u \in DOMAIN sessions :
               sessions[u].hostSocketId = act'.socket
                 => /\ u \notin DOMAIN sessions'
                    /\ \E i \in 1..Len(emits') :
                         /\ emits'[i].ev = "stream:ended"
                         /\ emits'[i].room = u
                         /\ emits'[i].to = rooms'[u]
     /\ (act'.kind = "listener:join" /\ ended[act'.username] = "disconnect")
          => OnlyErrorToSender(emits', act', "NOT_FOUND")
    ]_vars

\* C4: the recorded host of every session is a connected socket.
C4_HostIsConnected ==
  \A u \in DOMAIN sessions : status[sessions[u].hostSocketId] = "open"

\* C5: a host:end from a socket that is not the recorded host of the session
\* is ignored: no session changes, nothing is sent to anybody.
C5_NonHostEndIgnored ==
  [][(act'.kind = "host:end" /\ NotHostOf(sessions, act'))
       => /\ sessions' = sessions
          /\ emits' = <<>>]_vars

\* An ignored host:end against a session that has a listener.
C5_Witness ==
  /\ act.kind = "host:end"
  /\ NotHostOf(sessions, act)
  /\ emits = <<>>
  /\ sessions[act.username].listeners # {}

\* C6: a listener:join for a username without a session is answered with one
\* stream:error NOT_FOUND to the joining socket only; no listener set and no
\* room gains the socket; no stream:listeners, no chat:message.
C6_JoinWithoutSessionNotFound ==
  [][(act'.kind = "listener:join" /\ act'.username \notin DOMAIN sessions)
       => /\ OnlyErrorToSender(emits', act', "NOT_FOUND")
          /\ sessions' = sessions
          /\ rooms' = rooms]_vars

\* A NOT_FOUND join for a username whose session has ended, by a socket that
\* is not in the room the session left behind.
C6_Witness ==
  /\ act.kind = "listener:join"
  /\ act.username \notin DOMAIN sessions
  /\ OnlyErrorToSender(emits, act, "NOT_FOUND")
  /\ ended[act.username] # "no"
  /\ rooms[act.username] # {}
  /\ act.socket \notin rooms[act.username]

\* C7: a host:end from the recorded host sends stream:ended to the whole
\* room and removes the session in the same step; until the next host:start
\* the username has no session, and a listener:join for it gets NOT_FOUND
\* and joins no listener set.
C7_HostEndIsAtomic ==
  [][/\ (/\ act'.kind = "host:end"
         /\ act'.username \in DOMAIN sessions
         /\ sessions[act'.username].hostSocketId = act'.socket)
          => /\ act'.username \notin DOMAIN sessions'
             /\ Len(emits') = 1
             /\ emits'[1].ev = "stream:ended"
             /\ emits'[1].room = act'.username
             /\ emits'[1].to = rooms[act'.username]
     /\ \A u \in DOMAIN ended :
          ended'[u] = "host:end" => u \notin DOMAIN sessions'
     /\ (act'.kind = "listener:join" /\ ended[act'.username] = "host:end")
          => /\ OnlyErrorToSender(emits', act', "NOT_FOUND")
             /\ \A u \in DOMAIN sessions' :
                  sessions'[u].listeners = sessions[u].listeners
    ]_vars

\* A listener:join that follows the host:end of a session it was told about.
C7_Witness ==
  /\ act.kind = "listener:join"
  /\ ended[act.username] = "host:end"
  /\ OnlyErrorToSender(emits, act, "NOT_FOUND")
  /\ rooms[act.username] # {}

\* The stream:state a successful listener:join sent.
JoinedState(out) == out[1].data

\* C8: while the session is paused, the position in the stream:state sent to
\* a joining listener is the stored position, whatever time has passed.
C8_PausedPositionIsBaseline ==
  [][(/\ act'.kind = "listener:join"
      /\ act'.username \in DOMAIN sessions
      /\ ~sessions[act'.username].isPlaying)
       => /\ emits'[1].ev = "stream:state"
          /\ JoinedState(emits').positionMs
               = sessions[act'.username].position * 1000]_vars

\* A join to a paused session with a song, some time after its last seek.
C8_Witness ==
  /\ act.kind = "listener:join"
  /\ act.username \in DOMAIN sessions
  /\ ~sessions[act.username].isPlaying
  /\ Truthy(sessions[act.username].song)
  /\ sessions[act.username].position # 0
  /\ now > sessions[act.username].startedAt
  /\ emits[1].ev = "stream:state"

\* C9: while the session is playing, the position in the stream:state sent
\* to a joining listener is the stored position plus the time since the
\* stored timestamp, with or without a track.
C9_PlayingPositionExtrapolated ==
  [][(/\ act'.kind = "listener:join"
      /\ act'.username \in DOMAIN sessions
      /\ sessions[act'.username].isPlaying)
       => /\ emits'[1].ev = "stream:state"
          /\ JoinedState(emits').positionMs
               = sessions[act'.username].position * 1000
                   + (now' - sessions[act'.username].startedAt)]_vars

\* C10: the position in a stream:state is never negative.
C10_PositionNeverNegative ==
  (act.kind = "listener:join" /\ Len(emits) > 1)
    => JoinedState(emits).positionMs >= 0

\* C11: an accepted host:update that carries a position replaces the
\* baseline: the position told to a joining listener is computed from the
\* last position the host set (0 at host:start) and the instant it was set,
\* and from nothing older: that position plus the time since, while a track
\* is playing, and that position otherwise.
C11_SeekResetsBaseline ==
  [][(act'.kind = "listener:join" /\ act'.username \in DOMAIN sessions)
       => LET session == sessions[act'.username]
              last    == baseline[act'.username]
          IN /\ emits'[1].ev = "stream:state"
             /\ JoinedState(emits').positionMs
                  = IF session.isPlaying /\ Truthy(session.song)
                    THEN last.position * 1000 + (now' - last.at)
                    ELSE last.position * 1000]_vars

\* The reference scenario, one tick being five seconds: a seek to 5 one tick
\* after the start, a join one tick after the seek, and the listener is told
\* 10 (5 + 5 elapsed), not 15.
C11_Witness ==
  /\ act.kind = "listener:join"
  /\ act.username \in DOMAIN sessions
  /\ baseline[act.username] = [position |-> 5, at |-> TickMs]
  /\ now = 2 * TickMs
  /\ sessions[act.username].isPlaying
  /\ emits[1].ev = "stream:state"
  /\ JoinedState(emits).positionMs = 10 * 1000

\* The last event was a host:update from the recorded host of its session.
AcceptedUpdate(sess, a) ==
  /\ a.kind = "host:update"
  /\ a.username \in DOMAIN sess
  /\ sess[a.username].hostSocketId = a.socket

\* C12: an accepted host:update that changes isPlaying or the track and
\* carries no position also sets the session's timestamp to the instant of
\* the update.
C12_StateChangeResetsTimestamp ==
  [][(/\ AcceptedUpdate(sessions, act')
      /\ act'.payload.position = {}
      /\ \/ sessions'[act'.username].isPlaying
              # sessions[act'.username].isPlaying
         \/ sessions'[act'.username].song # sessions[act'.username].song)
       => sessions'[act'.username].startedAt = now']_vars

\* String.prototype.toLowerCase on the usernames of the model: the
\* normalisation the session identity is said to have.
ToLowerCase(username) ==
  IF username = "Alice" THEN "alice" ELSE username

\* C13: session identity is case-insensitive and unique: no two sessions
\* have usernames that differ only in case, and a listener:join under one
\* spelling finds the session started under another.
C13_IdentityCaseInsensitive ==
  /\ \A u, v \in DOMAIN sessions :
       ToLowerCase(u) = ToLowerCase(v) => u = v
  /\ (/\ act.kind = "listener:join"
      /\ \E v \in DOMAIN sessions :
           ToLowerCase(v) = ToLowerCase(act.username))
       => emits[1].ev = "stream:state"

\* C14: the listeners of a session never contain the session's host socket.
C14_HostNotAmongListeners ==
  \A u \in DOMAIN sessions :
    sessions[u].hostSocketId \notin sessions[u].listeners

\* C15: an event whose payload has no username is answered with an error
\* sent to the sending socket only; it creates or changes no session, adds
\* nobody to a room and is broadcast to nobody.
C15_MissingUsernameRejected ==
  [][(/\ act'.kind \in {"host:start", "host:update", "host:end",
                        "listener:join", "chat:send"}
      /\ act'.username = Undefined)
       => /\ sessions' = sessions
          /\ rooms' = rooms
          /\ Len(emits') = 1
          /\ emits'[1].ev = "stream:error"
          /\ emits'[1].to = {act'.socket}]_vars

\* The sessions whose listeners contain the socket, and those it hosts.
ListenedBy(sess, socket) ==
  {u \in DOMAIN sess : socket \in sess[u].listeners}

HostedBy(sess, socket) ==
  {u \in DOMAIN sess : sess[u].hostSocketId = socket}

\* C16: the disconnect of a listener takes the socket out of the session's
\* listeners, which lowers the count by exactly one; the disconnect handler
\* run for a socket that is in no listeners set any more (and hosts nothing)
\* changes no session and sends nothing.
C16_ListenerLeavesOnce ==
  [][act'.kind = "disconnect"
       => /\ \A u \in ListenedBy(sessions, act'.socket)
                        \ HostedBy(sessions, act'.socket) :
               /\ u \in DOMAIN sessions'
               /\ sessions'[u].listeners
                    = sessions[u].listeners \ {act'.socket}
               /\ Cardinality(sessions'[u].listeners)
                    = Cardinality(sessions[u].listeners) - 1
          /\ (/\ ListenedBy(sessions, act'.socket) = {}
              /\ HostedBy(sessions, act'.socket) = {})
               => /\ sessions' = sessions
                  /\ emits' = <<>>]_vars

\* C17: every stream:listeners carries the size of its session's listeners
\* set as the join or leave left it, and the listenerCount of the
\* stream:state sent to a joiner is the count of the stream:listeners the
\* same join broadcasts, the joiner included.
C17_CountsAreAfterTheChange ==
  [][/\ \A i \in 1..Len(emits') :
          emits'[i].ev = "stream:listeners"
            => /\ emits'[i].room \in DOMAIN sessions'
               /\ emits'[i].data.count
                    = Cardinality(sessions'[emits'[i].room].listeners)
     /\ (act'.kind = "listener:join" /\ act'.username \in DOMAIN sessions)
          => /\ Len(emits') = 3
             /\ emits'[1].ev = "stream:state"
             /\ emits'[2].ev = "stream:listeners"
             /\ emits'[2].room = act'.username
             /\ emits'[1].data.listenerCount = emits'[2].data.count
             /\ act'.socket \in sessions'[act'.username].listeners
    ]_vars

C17_Witness ==
  /\ act.kind = "disconnect"
  /\ \E i \in 1..Len(emits) :
       /\ emits[i].ev = "stream:listeners"
       /\ emits[i].data.count = 1
       /\ sessions[emits[i].room].listeners # {}

\* A field of the session after an update: the payload's value where the
\* payload has one, the session's value before the update otherwise.
AfterUpdate(given, before) == IF given = {} THEN before ELSE Only(given)

\* C18: an accepted host:update sends exactly one event, a stream:update
\* with the session's song, isPlaying and position as the update leaves
\* them, to every socket of the session's room but the sending host.
C18_UpdateReachesRoomButSender ==
  [][AcceptedUpdate(sessions, act')
       => LET u      == act'.username
              before == sessions[u]
              after  == sessions'[u]
          IN /\ after.song = AfterUpdate(act'.payload.song, before.song)
             /\ after.isPlaying
                  = AfterUpdate(act'.payload.isPlaying, before.isPlaying)
             /\ after.position
                  = AfterUpdate(act'.payload.position, before.position)
             /\ Len(emits') = 1
             /\ emits'[1].ev = "stream:update"
             /\ emits'[1].data = [song      |-> after.song,
                                  isPlaying |-> after.isPlaying,
                                  position  |-> after.position]
             /\ emits'[1].to = rooms[u] \ {act'.socket}
             /\ act'.socket \in rooms[u]]_vars

C18_Witness ==
  /\ AcceptedUpdate(sessions, act)
  /\ act.payload.position = {5}
  /\ Len(emits) = 1
  /\ emits[1].data.position = 5
  /\ Cardinality(emits[1].to) = 2
  /\ act.socket \in rooms[act.username]

\* C19: a chat:send for a live session sends exactly one chat:message, of
\* type user, with the sender's name, the text and the sender's socket id,
\* to every socket of that session's room, the sender included, and to no
\* socket outside it.
C19_ChatReachesWholeRoom ==
  [][(act'.kind = "chat:send" /\ act'.username \in DOMAIN sessions)
       => /\ Len(emits') = 1
          /\ emits'[1].ev = "chat:message"
          /\ emits'[1].data.type = "user"
          /\ emits'[1].data.senderId = act'.socket
          /\ emits'[1].data.username = act'.payload.senderName
          /\ emits'[1].data.text = act'.payload.message
          /\ emits'[1].to = rooms[act'.username]]_vars

\* C20: host:start installs a fresh session under the username whatever was
\* there before: its host is the sender, it is playing, its position is 0,
\* its timestamp is the instant of the start, it has no listeners and the
\* track is the one given; no other session changes, and the only event is
\* one host:started to the sender.
C20_StartInstallsFreshSession ==
  [][act'.kind = "host:start"
       => LET u == act'.username
          IN /\ u \in DOMAIN sessions'
             /\ sessions'[u].hostSocketId = act'.socket
             /\ sessions'[u].isPlaying = TRUE
             /\ sessions'[u].position = 0
             /\ sessions'[u].startedAt = now'
             /\ sessions'[u].listeners = {}
             /\ {sessions'[u].song} \ {Undefined} = act'.payload.song
             /\ DOMAIN sessions' = DOMAIN sessions \cup {u}
             /\ \A v \in DOMAIN sessions \ {u} : sessions'[v] = sessions[v]
             /\ Len(emits') = 1
             /\ emits'[1].ev = "host:started"
             /\ emits'[1].to = {act'.socket}
             /\ emits'[1].data.listenerCount = 0]_vars

\* A start over a session that had another host and a listener.
C20_Witness ==
  /\ act.kind = "host:start"
  /\ sessions[act.username].hostSocketId = act.socket
  /\ sessions[act.username].listeners = {}
  /\ \E s \in Sockets \ {act.socket} : <<act.username, s>> \in superseded
  /\ \E s \in rooms[act.username] :
       /\ listenerName[s] = "Ann"
       /\ s # act.socket
       /\ <<act.username, s>> \notin superseded
  /\ emits[1].to = {act.socket}

\* C21: after a take-over, the disconnect of the superseded socket leaves
\* the session of the new host in place, unchanged, and sends no
\* stream:ended to its room.
C21_SupersededDisconnectIsHarmless ==
  [][act'.kind = "disconnect"
       => \A u \in DOMAIN sessions :
            <<u, act'.socket>> \in superseded
              => /\ u \in DOMAIN sessions'
                 /\ sessions'[u].hostSocketId = sessions[u].hostSocketId
                 /\ sessions'[u].hostSocketId # act'.socket
                 /\ \A i \in 1..Len(emits') :
                      ~(emits'[i].ev = "stream:ended" /\ emits'[i].room = u)
    ]_vars

C21_Witness ==
  /\ act.kind = "disconnect"
  /\ status[act.socket] = "closed"
  /\ \E u \in DOMAIN sessions :
       /\ <<u, act.socket>> \in superseded
       /\ sessions[u].hostSocketId # act.socket
       /\ status[sessions[u].hostSocketId] = "open"

\* C22: a disconnect takes the socket out of the listeners of every session
\* it listens to and sends each such session's room a stream:listeners, so
\* that afterwards no session's listeners holds the socket, also when the
\* socket hosts another session.
C22_DisconnectLeavesEveryListenerSet ==
  [][act'.kind = "disconnect"
       => /\ \A u \in DOMAIN sessions' :
               act'.socket \notin sessions'[u].listeners
          /\ \A u \in ListenedBy(sessions, act'.socket)
                        \ HostedBy(sessions, act'.socket) :
               \E i \in 1..Len(emits') :
                 /\ emits'[i].ev = "stream:listeners"
                 /\ emits'[i].room = u]_vars

\* The sockets a session's broadcasts are meant for: its listeners and its
\* host.
Subscribers(session) == session.listeners \cup {session.hostSocketId}

\* Deliveries of stream:update and stream:listeners stay within the
\* listeners and the host of the session they are about.
UpdatesStayWithinSubscribers ==
  \A i \in 1..Len(emits) :
    (/\ emits[i].ev \in {"stream:update", "stream:listeners"}
     /\ emits[i].room \in DOMAIN sessions)
      => emits[i].to \subseteq Subscribers(sessions[emits[i].room])

\* C23: the sockets in the room of every live session are the session's
\* listeners and its host, whatever starts, take-overs, ends, restarts,
\* joins and disconnects came before; so no stream:update or
\* stream:listeners reaches a superseded host or a listener of an earlier
\* session of the username.
C23_RoomIsListenersPlusHost ==
  /\ \A u \in DOMAIN sessions : rooms[u] = Subscribers(sessions[u])
  /\ UpdatesStayWithinSubscribers

\* C24: at any time a socket is the host of at most one session and in the
\* listeners of at most one session.
C24_OneSessionPerSocket ==
  \A socket \in Sockets :
    /\ Cardinality(HostedBy(sessions, socket)) <= 1
    /\ Cardinality(ListenedBy(sessions, socket)) <= 1

\* C25: a username stops having a session only by a host:end for it from
\* the session's recorded host or by the disconnect of that host; a join,
\* a chat, an update, a start, any event from another socket and the
\* passage of time all leave every live username live.
C25_OnlyTheHostEndsASession ==
  [][\A u \in DOMAIN sessions :
       u \notin DOMAIN sessions'
         => /\ act'.socket = sessions[u].hostSocketId
            /\ \/ act'.kind = "host:end" /\ act'.username = u
               \/ act'.kind = "disconnect"]_vars

\* The session is still there at the end of the clock, after a host:end
\* for it from a socket that is not its host.
C25_Witness ==
  /\ act.kind = "host:end"
  /\ act.username \in DOMAIN sessions
  /\ act.socket # sessions[act.username].hostSocketId
  /\ status[sessions[act.username].hostSocketId] = "open"
  /\ now = MaxTicks * TickMs
  /\ sessions[act.username].startedAt = 0

\* C26: an accepted host:update changes, of song, isPlaying and position,
\* exactly the fields its payload carries: a field that is absent keeps its
\* value and a field that is present takes the value given, a null or an
\* empty song included; the host, the listeners and every other session
\* stay as they were.
C26_UpdateAppliesOnlyGivenFields ==
  [][AcceptedUpdate(sessions, act')
       => LET u      == act'.username
              given  == act'.payload
              before == sessions[u]
              after  == sessions'[u]
          IN /\ after.song = IF given.song = {} THEN before.song
                             ELSE Only(given.song)
             /\ after.isPlaying = IF given.isPlaying = {} THEN before.isPlaying
                                  ELSE Only(given.isPlaying)
             /\ after.position = IF given.position = {} THEN before.position
                                 ELSE Only(given.position)
             /\ after.hostSocketId = before.hostSocketId
             /\ after.listeners = before.listeners
             /\ DOMAIN sessions' = DOMAIN sessions
             /\ \A v \in DOMAIN sessions \ {u} : sessions'[v] = sessions[v]
    ]_vars

\* A null song stored over a track, with a seek and a pause made before it
\* still in place.
C26_Witness ==
  /\ AcceptedUpdate(sessions, act)
  /\ act.payload = UpdatePayload({Null}, {}, {})
  /\ sessions[act.username].song = Null
  /\ sessions[act.username].position = 5
  /\ sessions[act.username].isPlaying = FALSE

\* C27: a successful listener:join sends one chat:message of type system
\* that announces the join by the name given, to the session's room: the
\* host and every listener that were in the room before receive it.
C27_JoinIsAnnouncedToRoom ==
  [][(act'.kind = "listener:join" /\ act'.username \in DOMAIN sessions)
       => LET u       == act'.username
              notices == {i \in 1..Len(emits') :
                            emits'[i].ev = "chat:message"}
          IN /\ Cardinality(notices) = 1
             /\ \A i \in notices :
                  /\ emits'[i].data.type = "system"
                  /\ emits'[i].data.text
                       = <<listenerName'[act'.socket], "joined the stream">>
                  /\ emits'[i].room = u
                  /\ rooms[u] \ {act'.socket} \subseteq emits'[i].to
                  /\ emits'[i].to \subseteq rooms'[u]
                  /\ \A s \in Subscribers(sessions[u]) \ {act'.socket} :
                       status[s] = "open" => s \in emits'[i].to]_vars

\* A join announced to the host and to a listener already there.
C27_Witness ==
  /\ act.kind = "listener:join"
  /\ act.username \in DOMAIN sessions
  /\ Len(emits) = 3
  /\ emits[3].data.type = "system"
  /\ sessions[act.username].hostSocketId \in emits[3].to
  /\ \E s \in sessions[act.username].listeners \ {act.socket} :
       s \in emits[3].to /\ s # sessions[act.username].hostSocketId

\* C28: every disconnect that takes the socket out of a session's listeners
\* sends that session's room a stream:listeners with the new count and a
\* chat:message of type system that announces the departure, whether the
\* listener gave a name when it joined or not.
C28_LeaveIsCountedAndAnnounced ==
  [][act'.kind = "disconnect"
       => \A u \in DOMAIN sessions \cap DOMAIN sessions' :
            (/\ act'.socket \in sessions[u].listeners
             /\ act'.socket \notin sessions'[u].listeners)
              => /\ \E i \in 1..Len(emits') :
                      /\ emits'[i].ev = "stream:listeners"
                      /\ emits'[i].room = u
                      /\ emits'[i].to = rooms'[u]
                      /\ emits'[i].data.count
                           = Cardinality(sessions'[u].listeners)
                 /\ \E i \in 1..Len(emits') :
                      /\ emits'[i].ev = "chat:message"
                      /\ emits'[i].room = u
                      /\ emits'[i].to = rooms'[u]
                      /\ emits'[i].data.type = "system"]_vars

\* The numbers of the handler runs whose events `socket` received, in the
\* order it received them, never go down.
InEmissionOrder(socket) ==
  \A i, j \in 1..Len(received[socket]) :
    i < j => received[socket][i].n <= received[socket][j].n

\* The stream:update events `socket` received, in the order received.
UpdatesSeenBy(socket) ==
  SelectSeq(received[socket], LAMBDA e : e.ev = "stream:update")

IsBroadcast(e) == e.ev \in {"stream:update", "chat:message"}

\* C30: nothing is replayed.  What a socket has received only grows, by
\* events of the handler that has just run; a successful listener:join
\* hands the joiner the stream:state snapshot and the stream:listeners
\* count and nothing else; and every stream:update or chat:message a socket
\* has received from a room came after the socket's own host:started or
\* stream:state for that username.
C30_NoReplayOnJoin ==
  /\ [][\A s \in Sockets :
          /\ Len(received'[s]) >= Len(received[s])
          /\ SubSeq(received'[s], 1, Len(received[s])) = received[s]
          /\ \A i \in (Len(received[s]) + 1)..Len(received'[s]) :
               received'[s][i].n = events']_vars
  /\ [][(act'.kind = "listener:join" /\ act'.username \in DOMAIN sessions)
          => LET new == SubSeq(received'[act'.socket],
                               Len(received[act'.socket]) + 1,
                               Len(received'[act'.socket]))
             IN /\ Len(new) = 2
                /\ new[1].ev = "stream:state"
                /\ new[2].ev = "stream:listeners"]_vars
  /\ [](\A s \in Sockets :
          \A i \in 1..Len(received[s]) :
            IsBroadcast(received[s][i])
              => \E j \in 1..(i - 1) :
                   /\ received[s][j].ev \in {"stream:state", "host:started"}
                   /\ received[s][j].about = received[s][i].room)

\* The host chatted before and after the listener joined: the host has
\* both messages, the listener the snapshot first and the later one only.
C30_Witness ==
  \E h, s \in ClockSockets :
    /\ h # s
    /\ \E i \in 1..Len(received[h]) :
         /\ received[h][i].ev = "chat:message"
         /\ received[h][i].data.type = "chat"
         /\ received[h][i].n = 2
    /\ Len(received[s]) = 3
    /\ received[s][1].ev = "stream:state" /\ received[s][1].n = 3
    /\ received[s][3].ev = "chat:message" /\ received[s][3].n = 4
    /\ received[s][3].data.type = "chat"

\* The events named `ev` that `socket` has received, in the order received.
Seen(socket, ev) == SelectSeq(received[socket], LAMBDA e : e.ev = ev)

\* C31: a listener:join by a socket that is already among the session's
\* listeners leaves the listeners as they are, and the count it reports in
\* stream:state and in stream:listeners is the count there was before it.
C31_RejoinDoesNotRaiseCount ==
  [][(/\ act'.kind = "listener:join"
      /\ act'.username \in DOMAIN sessions
      /\ act'.socket \in sessions[act'.username].listeners)
       => LET before == Cardinality(sessions[act'.username].listeners)
          IN /\ sessions'[act'.username].listeners
                  = sessions[act'.username].listeners
             /\ emits'[1].ev = "stream:state"
             /\ emits'[1].data.listenerCount = before
             /\ emits'[2].ev = "stream:listeners"
             /\ emits'[2].data.count = before]_vars

\* A listener joined the one session of a host twice and was told a count
\* of 1 both times.
C31_Witness ==
  \E h, s \in ClockSockets :
    /\ h # s
    /\ Len(Seen(h, "host:started")) = 1
    /\ Len(Seen(s, "host:started")) = 0
    /\ Len(Seen(s, "stream:ended")) = 0
    /\ Len(Seen(s, "stream:state")) = 2
    /\ Seen(s, "stream:state")[1].data.listenerCount = 1
    /\ Seen(s, "stream:state")[2].data.listenerCount = 1
    /\ Seen(s, "stream:listeners")[2].data.count = 1
    /\ sessions["alice"].listeners = {s}

\* C32: a chat:send that names a username without a session sends nothing
\* to any socket and changes no session, room or socket, also when sockets
\* of an ended session are still in that username's room.
C32_ChatWithoutSessionIsDropped ==
  [][(act'.kind = "chat:send" /\ act'.username \notin DOMAIN sessions)
       => /\ emits' = <<>>
          /\ UNCHANGED <<sessions, keyOrder, rooms, status, listenerName>>
    ]_vars

\* A chat for a username whose session its host ended, with the host and a
\* listener of that session still in the room.
C32_Witness ==
  /\ act.kind = "chat:send"
  /\ act.username \notin DOMAIN sessions
  /\ ended[act.username] = "host:end"
  /\ Cardinality(rooms[act.username]) >= 2
  /\ act.socket \in rooms[act.username]
  /\ emits = <<>>

\* C33: every chat:message a chat:send delivers to a session's room comes
\* from the session's host or from one of its listeners; a socket that is
\* neither puts no chat into the room.
C33_ChatComesFromTheSession ==
  [][\A i \in 1..Len(emits') :
       (/\ act'.kind = "chat:send"
        /\ emits'[i].ev = "chat:message"
        /\ emits'[i].to # {})
         => /\ emits'[i].room \in DOMAIN sessions
            /\ emits'[i].data.senderId
                 \in Subscribers(sessions[emits'[i].room])]_vars

\* A session but for its listeners.
WithoutListeners(session) == [session EXCEPT !.listeners = {}]

C35_BystanderDisconnectIsSilent ==
  [][(/\ act'.kind = "disconnect"
      /\ HostedBy(sessions, act'.socket) = {}
      /\ ListenedBy(sessions, act'.socket) = {})
       => /\ sessions' = sessions
          /\ keyOrder' = keyOrder
          /\ emits' = <<>>]_vars

\* A superseded host, still in the room of a session that has a listener,
\* disconnects.
C35_Witness ==
  /\ act.kind = "disconnect"
  /\ emits = <<>>
  /\ \E u \in DOMAIN sessions :
       /\ <<u, act.socket>> \in superseded
       /\ sessions[u].hostSocketId # act.socket
       /\ sessions[u].listeners # {}
       /\ act.socket \notin sessions[u].listeners
  /\ HostedBy(sessions, act.socket) = {}
  /\ ListenedBy(sessions, act.socket) = {}

\* C36: whatever the interleaving of the queries of concurrent uploads of
\* the user, storage_used never exceeds storage_limit.
C36_UploadsStayWithinLimit ==
  storage_used <= storage_limit

\* Every request that has arrived has been answered.
AllFinished ==
  \A r \in Requests :
    requests[r].pc \in {"idle", "done", "rejected", "failed", "notFound"}

\* C37: storage_used is never negative, and once every request is finished
\* it is the sum of file_size over the user's remaining songs, whatever the
\* interleaving of the queries of uploads and deletes, two deletes of the
\* same song included.
C37_StorageUsedMatchesSongs ==
  /\ storage_used >= 0
  /\ AllFinished => storage_used = TotalSize(songs, DOMAIN songs)

====
